---- MODULE Spec2Model ----
(***************************************************************************)
(* Model of the two page loaders of emerald-academy-v2:                    *)
(*                                                                         *)
(*   - the Content Resolver, routes/[lang=lang]/catalog/roadmaps/[name]/   *)
(*     +page.ts, which imports the overview module of a roadmap by a path  *)
(*     interpolated from the route parameters;                             *)
(*   - the API-Backed Loader (the cadenceByExample +page.ts), which        *)
(*     fetches a fixed endpoint and republishes the decoded JSON body.     *)
(*                                                                         *)
(* A route parameter is a string; it is modelled as the sequence of its    *)
(* "/"-separated segments, so that interpolating it into the import path   *)
(* is concatenation of segment sequences and a parameter holding a "/"     *)
(* (an encoded slash in the URL) changes the number of path segments.      *)
(* Every await of the code is a suspension point: the call up to the       *)
(* await is one action, the continuation after the await is another.       *)
(***************************************************************************)
EXTENDS Integers, Sequences, FiniteSets, TLC

VARIABLES modules, pc, loader, params, roadmapFile, response, outcome,
          args, io, issued

vars == <<modules, pc, loader, params, roadmapFile, response, outcome,
          args, io, issued>>

(***************************************************************************)
(* Bounds.                                                                 *)
(***************************************************************************)
\* Number of loader invocations that may be in flight at the same time.
MaxInvocations == 2

Invocations == 1..MaxInvocations

(***************************************************************************)
(* The static content set.                                                 *)
(***************************************************************************)
RoadmapNames == {"beginner-dapp-roadmap", "advanced-roadmap"}

LangCodes == {"en", "es"}

\* The value of a missing property / a binding that holds nothing yet.
Undefined == [undefined |-> TRUE]

\* `../../../../../lib/content/roadmaps/` of the import specifier.
RoadmapsDir == <<"..", "..", "..", "..", "..", "lib", "content", "roadmaps">>

\* Location of the overview module of roadmap `name` in language `lang`.
OverviewFile(name, lang) == RoadmapsDir \o <<name, lang, "overview.ts">>

\* generateSlug(import.meta.url): the slug is derived from the location of
\* the defining module; here the roadmap directory of the module.
generateSlug(url) == url[Len(url) - 2]

\* The record exported by roadmaps/beginner-dapp-roadmap/en/overview.ts.
overview ==
    [title       |-> "Beginner Dapp Roadmap",
     contentType |-> "Roadmap",
     slug        |-> generateSlug(OverviewFile("beginner-dapp-roadmap", "en")),
     excerpt     |-> "Lorem ipsum dolor sit amet.",
     metadata    |-> [expertise     |-> "beginner",
                      duration      |-> "3 chapters",
                      prerequisites |-> <<"javascript">>,
                      subjects      |-> <<"Cadence">>],
     contents    |-> << [title       |-> "Beginner Cadence Course",
                         excerpt     |-> "Lorem ipsum",
                         contentType |-> "Course",
                         duration    |-> "4 chapters",
                         subjects    |-> <<"Cadence">>,
                         url         |-> "catalog/courses/beginner-cadence"],
                        [title       |-> "Basic Dapp",
                         excerpt     |-> "Lorem ipsum",
                         contentType |-> "Course",
                         duration    |-> "4 chapters",
                         subjects    |-> <<"Cadence">>,
                         url         |-> "catalog/courses/basic-dapp"] >>,
     chapters    |-> << [excerpt |-> "This is the first chapter"],
                        [excerpt |-> "This is the second chapter"],
                        [excerpt |-> "This is the third chapter"] >>]

\* An overview record of another authoring file: the same shape, its own
\* title, slug and excerpt.
OtherOverview(name, lang) ==
    [title       |-> name,
     contentType |-> "Roadmap",
     slug        |-> generateSlug(OverviewFile(name, lang)),
     excerpt     |-> lang,
     metadata    |-> [expertise     |-> "beginner",
                      duration      |-> "1 chapter",
                      prerequisites |-> <<>>,
                      subjects      |-> <<"Cadence">>],
     contents    |-> <<>>,
     chapters    |-> << [excerpt |-> "This is the first chapter"] >>]

\* The module namespace object of an authoring file: its exports.
OverviewModule(name, lang) ==
    [overview |-> IF name = "beginner-dapp-roadmap" /\ lang = "en"
                  THEN overview
                  ELSE OtherOverview(name, lang)]

\* The pairs (name, lang) an authoring file may exist for.
ContentKeys == RoadmapNames \X LangCodes

\* The content sets of the model: every set of authoring files that holds
\* the file of the repository. A content set maps the location of each of
\* its files to the module defined there.
ContentSets ==
    { [f \in {OverviewFile(k[1], k[2]) : k \in K} |->
          OverviewModule(f[Len(f) - 2], f[Len(f) - 1])] :
      K \in {S \in SUBSET ContentKeys : <<"beginner-dapp-roadmap", "en">> \in S} }

(***************************************************************************)
(* Route parameters.                                                       *)
(***************************************************************************)
\* Values of params.name: the names of the roadmaps, a name no roadmap
\* has, and a name that holds a "/".
NameParams ==
    {<<n>> : n \in RoadmapNames \cup {"nonexistent-roadmap"}}
        \cup {<<"beginner-dapp-roadmap", "en">>}

\* Values of params.lang.
LangParams == {<<l>> : l \in LangCodes}

RouteParams == [name : NameParams, lang : LangParams]

NoParams == [name |-> <<>>, lang |-> <<>>]

(***************************************************************************)
(* Content Resolver: +page.ts of catalog/roadmaps/[name].                  *)
(***************************************************************************)
\* Mutant: the language segment of the specifier is hard-coded.
ImportSpecifierFixedLang(p) == RoadmapsDir \o p.name \o <<"en", "overview.ts">>

\* `../../../../../lib/content/roadmaps/${params.name}/${params.lang}/overview.ts`
ImportSpecifier(p) == RoadmapsDir \o p.name \o p.lang \o <<"overview.ts">>

\* Mutant: the default export is read, whatever property is asked for.
GetDefault(obj, prop) == IF "default" \in DOMAIN obj THEN obj["default"] ELSE Undefined

\* Property access on an object: a missing property reads as undefined.
Get(obj, prop) == IF prop \in DOMAIN obj THEN obj[prop] ELSE Undefined

\* return { roadmap: roadmapFile.overview }
ResolverResult(file) == [kind |-> "success", roadmap |-> Get(file, "overview")]

\* Mutant: the catch block throws the error it caught.
ResolverErrorRethrown(e) == [kind |-> "failure", error |-> e]

\* throw new Error(`You missed it`)
ResolverError(e) ==
    [kind |-> "failure", error |-> [name |-> "Error", message |-> "You missed it"]]

Pending == [kind |-> "pending"]

\* Mutant: the bindings are hoisted to module scope, one set for all calls.
FrameShared(i) == 1

\* The activation of load that holds the bindings of invocation i: every
\* call has its own params, roadmapFile, response and content.
Frame(i) == i

\* load({ params }) up to the await of import(): the specifier is built
\* and the import is issued.
ResolverCall(i, p) ==
    /\ pc[i] = "idle"
    /\ pc' = [pc EXCEPT ![i] = "importing"]
    /\ loader' = [loader EXCEPT ![i] = "resolver"]
    /\ params' = [params EXCEPT ![Frame(i)] = p]
    /\ args' = [args EXCEPT ![i] = p]
    /\ issued' = [issued EXCEPT ![i] =
                     <<[op |-> "import", target |-> ImportSpecifier(p)]>>]
    /\ io' = [io EXCEPT ![i] = <<>>]
    /\ outcome' = [outcome EXCEPT ![i] = Pending]
    /\ UNCHANGED <<modules, roadmapFile, response>>

\* Mutant: load writes the requested name into the record it returns.
ImportFulfilledStamped(i) ==
    /\ pc[i] = "importing"
    /\ LET file == issued[i][Len(issued[i])].target IN
       /\ file \in DOMAIN modules
       /\ modules' = [modules EXCEPT ![file].overview.title = args[i].name[1]]
       /\ roadmapFile' = [roadmapFile EXCEPT ![i] = modules'[file]]
       /\ io' = [io EXCEPT ![i] =
                    Append(@, [kind |-> "fulfilled", module |-> modules'[file]])]
    /\ outcome' = [outcome EXCEPT ![i] =
                       [kind |-> "success", roadmap |-> roadmapFile'[i].overview]]
    /\ pc' = [pc EXCEPT ![i] = "done"]
    /\ UNCHANGED <<loader, params, response, args, issued>>

\* The import is fulfilled with the module at the specifier; load returns.
ImportFulfilled(i) ==
    /\ pc[i] = "importing"
    /\ LET file == issued[i][Len(issued[i])].target IN
       /\ file \in DOMAIN modules
       /\ roadmapFile' = [roadmapFile EXCEPT ![Frame(i)] = modules[file]]
       /\ io' = [io EXCEPT ![i] =
                    Append(@, [kind |-> "fulfilled", module |-> modules[file]])]
    /\ outcome' = [outcome EXCEPT ![i] = ResolverResult(roadmapFile'[Frame(i)])]
    /\ pc' = [pc EXCEPT ![i] = "done"]
    /\ UNCHANGED <<modules, loader, params, response, args, issued>>

\* The errors import() rejects with.
UnknownModule == [name |-> "Error", message |-> "Unknown variable dynamic import"]

LoadFailed == [name |-> "TypeError", message |-> "Failed to fetch dynamically imported module"]

\* Mutant: the catch block returns a result without a record.
ImportRejectedSwallowed(i, e) ==
    /\ pc[i] = "importing"
    /\ LET file == issued[i][Len(issued[i])].target IN
       IF file \in DOMAIN modules THEN e = LoadFailed ELSE e = UnknownModule
    /\ io' = [io EXCEPT ![i] = Append(@, [kind |-> "rejected", error |-> e])]
    /\ outcome' = [outcome EXCEPT ![i] = [kind |-> "success", roadmap |-> Undefined]]
    /\ pc' = [pc EXCEPT ![i] = "done"]
    /\ UNCHANGED <<modules, loader, params, roadmapFile, response, args, issued>>

\* The import is rejected with e: no module at the specifier, or the module
\* could not be loaded; the catch block replaces e.
ImportRejected(i, e) ==
    /\ pc[i] = "importing"
    /\ LET file == issued[i][Len(issued[i])].target IN
       IF file \in DOMAIN modules THEN e = LoadFailed ELSE e = UnknownModule
    /\ io' = [io EXCEPT ![i] = Append(@, [kind |-> "rejected", error |-> e])]
    /\ outcome' = [outcome EXCEPT ![i] = ResolverError(e)]
    /\ pc' = [pc EXCEPT ![i] = "done"]
    /\ UNCHANGED <<modules, loader, params, roadmapFile, response, args, issued>>

(***************************************************************************)
(* API-Backed Loader: +page.ts of the cadenceByExample page.               *)
(***************************************************************************)
\* fetch(`/api/content/cadenceByExample`)
Endpoint == "/api/content/cadenceByExample"

\* The bodies the endpoint answers with, as received: two JSON documents,
\* an HTML error page and a JSON document cut short.
Bodies == {"{\"foo\":\"bar\"}", "{\"message\":\"Not Found\"}",
           "<!doctype html>", "{\"foo\":"}

Statuses == {200, 404}

Responses == [status : Statuses, body : Bodies]

\* The errors fetch() and response.json() reject with.
NetworkError == [name |-> "TypeError", message |-> "fetch failed"]

SyntaxError == [name |-> "SyntaxError", message |-> "Unexpected token"]

\* JSON decoding of a body: the decoded value, or a syntax error.
JsonParse(text) ==
    CASE text = "{\"foo\":\"bar\"}" -> [ok |-> TRUE, value |-> [foo |-> "bar"]]
      [] text = "{\"message\":\"Not Found\"}" ->
             [ok |-> TRUE, value |-> [message |-> "Not Found"]]
      [] OTHER -> [ok |-> FALSE, value |-> Undefined]

\* Mutant: the decoded body is wrapped before it is returned.
ApiResultWrapped(content) == [kind |-> "success", content |-> [data |-> content]]

\* return { content }
ApiResult(content) == [kind |-> "success", content |-> content]

\* A rejection nothing catches leaves load as it is.
Propagate(e) == [kind |-> "failure", error |-> e]

\* load({ fetch }) up to the await of fetch(): the request is issued.
ApiCall(i) ==
    /\ pc[i] = "idle"
    /\ pc' = [pc EXCEPT ![i] = "fetching"]
    /\ loader' = [loader EXCEPT ![i] = "api"]
    /\ issued' = [issued EXCEPT ![i] = <<[op |-> "fetch", target |-> Endpoint]>>]
    /\ io' = [io EXCEPT ![i] = <<>>]
    /\ outcome' = [outcome EXCEPT ![i] = Pending]
    /\ UNCHANGED <<modules, params, roadmapFile, response, args>>

\* Mutant: the response is returned without decoding its body.
FetchFulfilledUndecoded(i, r) ==
    /\ pc[i] = "fetching"
    /\ response' = [response EXCEPT ![i] = r]
    /\ io' = [io EXCEPT ![i] = Append(@, [kind |-> "fulfilled", response |-> r])]
    /\ outcome' = [outcome EXCEPT ![i] = [kind |-> "success", content |-> r]]
    /\ pc' = [pc EXCEPT ![i] = "done"]
    /\ UNCHANGED <<modules, loader, params, roadmapFile, args, issued>>

\* fetch is fulfilled with response r, whatever its status; load goes on to
\* response.json() and awaits it.
FetchFulfilled(i, r) ==
    /\ pc[i] = "fetching"
    /\ response' = [response EXCEPT ![Frame(i)] = r]
    /\ io' = [io EXCEPT ![i] = Append(@, [kind |-> "fulfilled", response |-> r])]
    /\ issued' = [issued EXCEPT ![i] = Append(@, [op |-> "json"])]
    /\ pc' = [pc EXCEPT ![i] = "decoding"]
    /\ UNCHANGED <<modules, loader, params, roadmapFile, outcome, args>>

\* Mutant: a rejected fetch is issued once more before load gives up.
FetchRejectedRetried(i) ==
    /\ pc[i] = "fetching"
    /\ io' = [io EXCEPT ![i] = Append(@, [kind |-> "rejected", error |-> NetworkError])]
    /\ IF Len(issued[i]) < 2
       THEN /\ issued' = [issued EXCEPT ![i] =
                              Append(@, [op |-> "fetch", target |-> "/api/content/cadenceByExample"])]
            /\ UNCHANGED <<outcome, pc>>
       ELSE /\ outcome' = [outcome EXCEPT ![i] = [kind |-> "failure", error |-> NetworkError]]
            /\ pc' = [pc EXCEPT ![i] = "done"]
            /\ UNCHANGED issued
    /\ UNCHANGED <<modules, loader, params, roadmapFile, response, args>>

\* fetch is rejected (no response at all); nothing catches the error.
FetchRejected(i) ==
    /\ pc[i] = "fetching"
    /\ io' = [io EXCEPT ![i] = Append(@, [kind |-> "rejected", error |-> NetworkError])]
    /\ outcome' = [outcome EXCEPT ![i] = Propagate(NetworkError)]
    /\ pc' = [pc EXCEPT ![i] = "done"]
    /\ UNCHANGED <<modules, loader, params, roadmapFile, response, args, issued>>

\* response.json() is fulfilled with the decoded body; load returns it.
JsonFulfilled(i) ==
    /\ pc[i] = "decoding"
    /\ LET content == JsonParse(response[Frame(i)].body) IN
       /\ content.ok
       /\ io' = [io EXCEPT ![i] = Append(@, [kind |-> "fulfilled", value |-> content.value])]
       /\ outcome' = [outcome EXCEPT ![i] = ApiResult(content.value)]
    /\ pc' = [pc EXCEPT ![i] = "done"]
    /\ UNCHANGED <<modules, loader, params, roadmapFile, response, args, issued>>

\* response.json() is rejected: the body is no JSON document; nothing
\* catches the error.
JsonRejected(i) ==
    /\ pc[i] = "decoding"
    /\ ~JsonParse(response[Frame(i)].body).ok
    /\ io' = [io EXCEPT ![i] = Append(@, [kind |-> "rejected", error |-> SyntaxError])]
    /\ outcome' = [outcome EXCEPT ![i] = Propagate(SyntaxError)]
    /\ pc' = [pc EXCEPT ![i] = "done"]
    /\ UNCHANGED <<modules, loader, params, roadmapFile, response, args, issued>>

(***************************************************************************)
(* The framework.                                                          *)
(***************************************************************************)
\* The framework takes the outcome of a finished invocation; its slot is
\* free for the next navigation.
Settle(i) ==
    /\ pc[i] = "done"
    /\ pc' = [pc EXCEPT ![i] = "idle"]
    /\ loader' = [loader EXCEPT ![i] = "none"]
    /\ params' = [params EXCEPT ![Frame(i)] = NoParams]
    /\ roadmapFile' = [roadmapFile EXCEPT ![Frame(i)] = Undefined]
    /\ response' = [response EXCEPT ![Frame(i)] = Undefined]
    /\ outcome' = [outcome EXCEPT ![i] = Pending]
    /\ args' = [args EXCEPT ![i] = NoParams]
    /\ io' = [io EXCEPT ![i] = <<>>]
    /\ issued' = [issued EXCEPT ![i] = <<>>]
    /\ UNCHANGED modules

Init ==
    /\ modules \in ContentSets
    /\ pc = [i \in Invocations |-> "idle"]
    /\ loader = [i \in Invocations |-> "none"]
    /\ params = [i \in Invocations |-> NoParams]
    /\ roadmapFile = [i \in Invocations |-> Undefined]
    /\ response = [i \in Invocations |-> Undefined]
    /\ outcome = [i \in Invocations |-> Pending]
    /\ args = [i \in Invocations |-> NoParams]
    /\ io = [i \in Invocations |-> <<>>]
    /\ issued = [i \in Invocations |-> <<>>]

Next ==
    \/ \E i \in Invocations, p \in RouteParams : ResolverCall(i, p)
    \/ \E i \in Invocations : ImportFulfilled(i)
    \/ \E i \in Invocations, e \in {UnknownModule, LoadFailed} : ImportRejected(i, e)
    \/ \E i \in Invocations : ApiCall(i)
    \/ \E i \in Invocations, r \in Responses : FetchFulfilled(i, r)
    \/ \E i \in Invocations : FetchRejected(i)
    \/ \E i \in Invocations : JsonFulfilled(i)
    \/ \E i \in Invocations : JsonRejected(i)
    \/ \E i \in Invocations : Settle(i)

Spec == Init /\ [][Next]_vars

(***************************************************************************)
(* Vocabulary of the properties.                                           *)
(***************************************************************************)
Done(i) == pc[i] = "done"

Succeeded(i) == Done(i) /\ outcome[i].kind = "success"

Failed(i) == Done(i) /\ outcome[i].kind = "failure"

\* A content record is statically defined for the pair an invocation was
\* given: roadmaps/<name>/<lang>/overview.ts is a file of the content set.
Defined(p) ==
    /\ Len(p.name) = 1
    /\ Len(p.lang) = 1
    /\ OverviewFile(p.name[1], p.lang[1]) \in DOMAIN modules

RecordOf(p) == modules[OverviewFile(p.name[1], p.lang[1])].overview

\* Response.ok: the status of the response is 2xx.
Ok(r) == r.status >= 200 /\ r.status <= 299

\* The import of invocation i was rejected although the module exists.
LoadFailure(i) == io[i] = <<[kind |-> "rejected", error |-> LoadFailed]>>

YouMissedIt == [kind |-> "failure", error |-> [name |-> "Error", message |-> "You missed it"]]

(***************************************************************************)
(* C1                                                                      *)
(***************************************************************************)
\* C1 (as claimed): for every (lang, name) pair with a statically defined
\* content record, the Content Resolver's load succeeds and its `roadmap`
\* is exactly that pair's record.
C1_DefinedPairSucceeds ==
    \A i \in Invocations :
        (Done(i) /\ loader[i] = "resolver" /\ Defined(args[i]))
            => outcome[i] = [kind |-> "success", roadmap |-> RecordOf(args[i])]

\* C1 (amended): for every (lang, name) pair with a statically defined
\* content record, load returns exactly that pair's record under `roadmap`,
\* never another pair's, unless the import of the existing module itself is
\* rejected, and then load fails with "You missed it".
C1_DefinedPairReturnsItsRecord ==
    \A i \in Invocations :
        (Done(i) /\ loader[i] = "resolver" /\ Defined(args[i]))
            => \/ outcome[i] = [kind |-> "success", roadmap |-> RecordOf(args[i])]
               \/ LoadFailure(i) /\ outcome[i] = YouMissedIt

\* (en, beginner-dapp-roadmap) has been resolved to the record titled
\* 'Beginner Dapp Roadmap' while another pair's record is defined too.
C1_Witness ==
    \E i \in Invocations :
        /\ Succeeded(i) /\ loader[i] = "resolver"
        /\ args[i] = [name |-> <<"beginner-dapp-roadmap">>, lang |-> <<"en">>]
        /\ outcome[i].roadmap.title = "Beginner Dapp Roadmap"
        /\ Len(outcome[i].roadmap.chapters) = 3
        /\ Defined([name |-> <<"beginner-dapp-roadmap">>, lang |-> <<"es">>])

(***************************************************************************)
(* C2                                                                      *)
(***************************************************************************)
\* C2: for every (lang, name) pair with no content record, the Content
\* Resolver's load returns no result: it fails, and the message of the
\* failure is "You missed it".
C2_UndefinedPairFails ==
    \A i \in Invocations :
        (Done(i) /\ loader[i] = "resolver" /\ ~Defined(args[i]))
            => /\ outcome[i].kind = "failure"
               /\ outcome[i].error.message = "You missed it"
               /\ "roadmap" \notin DOMAIN outcome[i]

\* (en, nonexistent-roadmap) has failed.
C2_Witness ==
    \E i \in Invocations :
        /\ Failed(i) /\ loader[i] = "resolver"
        /\ args[i] = [name |-> <<"nonexistent-roadmap">>, lang |-> <<"en">>]

(***************************************************************************)
(* C3                                                                      *)
(***************************************************************************)
\* C3: whatever made the resolution fail, the caller of the Content
\* Resolver sees one and the same error, which carries nothing of the
\* error that was caught.
C3_UniformFailure ==
    /\ \A i \in Invocations :
           (Failed(i) /\ loader[i] = "resolver")
               => /\ outcome[i] = YouMissedIt
                  /\ outcome[i].error.message # io[i][1].error.message
                  /\ outcome[i].error # io[i][1].error
    /\ \A i, j \in Invocations :
           (Failed(i) /\ Failed(j) /\ loader[i] = "resolver" /\ loader[j] = "resolver")
               => outcome[i] = outcome[j]

\* Two resolutions have failed for different reasons: one found no module
\* at the specifier, the other could not load the module that is there.
C3_Witness ==
    \E i, j \in Invocations :
        /\ Failed(i) /\ loader[i] = "resolver"
        /\ Failed(j) /\ loader[j] = "resolver"
        /\ io[i][1].error = UnknownModule
        /\ io[j][1].error = LoadFailed

(***************************************************************************)
(* C4                                                                      *)
(***************************************************************************)
\* C4: for every JSON body B the endpoint returns successfully, the
\* API-Backed Loader's load returns exactly { content: B }, the decoded
\* body as it is.
C4_PassThrough ==
    \A i \in Invocations :
        (Done(i) /\ loader[i] = "api" /\ io[i][1].kind = "fulfilled"
             /\ Ok(io[i][1].response) /\ JsonParse(io[i][1].response.body).ok)
            => /\ outcome[i] =
                    [kind |-> "success", content |-> JsonParse(io[i][1].response.body).value]
               /\ (io[i][1].response.body = "{\"foo\":\"bar\"}"
                       => outcome[i].content = [foo |-> "bar"])

\* A 200 response with the body {"foo": "bar"} has been republished.
C4_Witness ==
    \E i \in Invocations :
        /\ Succeeded(i) /\ loader[i] = "api"
        /\ io[i][1].response = [status |-> 200, body |-> "{\"foo\":\"bar\"}"]
        /\ outcome[i].content.foo = "bar"

(***************************************************************************)
(* C5                                                                      *)
(***************************************************************************)
\* C5: when the response of the endpoint is non-2xx or its body is
\* malformed JSON, the API-Backed Loader's load fails and returns no result
\* object.
C5_BadResponseFails ==
    \A i \in Invocations :
        (Done(i) /\ loader[i] = "api" /\ io[i][1].kind = "fulfilled"
             /\ (~Ok(io[i][1].response) \/ ~JsonParse(io[i][1].response.body).ok))
            => /\ outcome[i].kind = "failure"
               /\ "content" \notin DOMAIN outcome[i]

ImportsIssued(i) == {k \in 1..Len(issued[i]) : issued[i][k].op = "import"}

FetchesIssued(i) == {k \in 1..Len(issued[i]) : issued[i][k].op = "fetch"}

\* C7: no retries: an invocation of the API-Backed Loader issues exactly
\* one request, to /api/content/cadenceByExample, and an invocation of the
\* Content Resolver makes exactly one resolution attempt, also when the
\* attempt fails.
C7_NoRetry ==
    \A i \in Invocations :
        /\ loader[i] = "resolver"
               => /\ Cardinality(ImportsIssued(i)) = 1
                  /\ Len(issued[i]) = 1
                  /\ Len(io[i]) <= 1
        /\ loader[i] = "api"
               => /\ Cardinality(FetchesIssued(i)) = 1
                  /\ issued[i][1] = [op |-> "fetch", target |-> "/api/content/cadenceByExample"]
                  /\ Len(issued[i]) <= 2
                  /\ Len(io[i]) <= 2
        /\ loader[i] = "none" => issued[i] = <<>>

\* A resolution and a request have both ended in failure.
C7_Witness ==
    \E i, j \in Invocations :
        /\ Failed(i) /\ loader[i] = "resolver"
        /\ Failed(j) /\ loader[j] = "api"

(***************************************************************************)
(* C8                                                                      *)
(***************************************************************************)
Fulfilled(x) == x.kind = "fulfilled"

\* C8: an invocation is one linear operation with two outcomes: it has no
\* outcome before its awaited I/O has completed, and then either a success
\* result or a failure, never a partial result; the API-Backed Loader
\* publishes its result only after the fetch and then the JSON decoding
\* have completed, in that order.
C8_TwoOutcomes ==
    \A i \in Invocations :
        /\ ~Done(i) => outcome[i] = Pending
        /\ Done(i) => /\ outcome[i].kind \in {"success", "failure"}
                      /\ Len(io[i]) >= 1
        /\ Failed(i) => /\ DOMAIN outcome[i] = {"kind", "error"}
                        /\ ~Fulfilled(io[i][Len(io[i])])
        /\ (Succeeded(i) /\ loader[i] = "resolver")
               => /\ DOMAIN outcome[i] = {"kind", "roadmap"}
                  /\ Len(io[i]) = 1 /\ Fulfilled(io[i][1])
        /\ (Succeeded(i) /\ loader[i] = "api")
               => /\ DOMAIN outcome[i] = {"kind", "content"}
                  /\ issued[i] = <<[op |-> "fetch", target |-> Endpoint], [op |-> "json"]>>
                  /\ Len(io[i]) = 2
                  /\ Fulfilled(io[i][1]) /\ "response" \in DOMAIN io[i][1]
                  /\ Fulfilled(io[i][2]) /\ "value" \in DOMAIN io[i][2]
                  /\ outcome[i].content = io[i][2].value

\* A request has succeeded after both awaits while another has failed at
\* the decoding.
C8_Witness ==
    \E i, j \in Invocations :
        /\ Succeeded(i) /\ loader[i] = "api" /\ Len(io[i]) = 2
        /\ Failed(j) /\ loader[j] = "api" /\ Len(io[j]) = 2

(***************************************************************************)
(* C9                                                                      *)
(***************************************************************************)
\* The outcome of load run alone on the inputs p and the I/O responses rs.
SoloResolver(p, rs) ==
    IF rs[1].kind = "fulfilled"
    THEN [kind |-> "success", roadmap |-> rs[1].module.overview]
    ELSE YouMissedIt

SoloApi(rs) ==
    IF rs[1].kind = "rejected"
    THEN [kind |-> "failure", error |-> rs[1].error]
    ELSE IF rs[1].response.body \in {"{\"foo\":\"bar\"}", "{\"message\":\"Not Found\"}"}
         THEN [kind |-> "success",
               content |-> IF rs[1].response.body = "{\"foo\":\"bar\"}"
                           THEN [foo |-> "bar"]
                           ELSE [message |-> "Not Found"]]
         ELSE [kind |-> "failure", error |-> SyntaxError]

\* C9: invocations share no mutable state: under every interleaving of the
\* suspension points of concurrent invocations, the outcome of each equals
\* the outcome it has when run alone with the same inputs and the same I/O
\* responses.
C9_Isolation ==
    \A i \in Invocations :
        /\ (Done(i) /\ loader[i] = "resolver") => outcome[i] = SoloResolver(args[i], io[i])
        /\ (Done(i) /\ loader[i] = "api") => outcome[i] = SoloApi(io[i])
        /\ (pc[i] = "decoding") => response[Frame(i)] = io[i][1].response
        /\ (pc[i] = "importing") => params[Frame(i)] = args[i]

\* Two requests that were in flight together have ended with different
\* results, each the one of its own response.
C9_Witness ==
    \E i, j \in Invocations :
        /\ i < j
        /\ Succeeded(i) /\ loader[i] = "api"
        /\ Succeeded(j) /\ loader[j] = "api"
        /\ outcome[i].content = [message |-> "Not Found"]
        /\ outcome[j].content = [foo |-> "bar"]

(***************************************************************************)
(* C10                                                                     *)
(***************************************************************************)
SameOutcome(i, j) ==
    (Done(i) /\ Done(j) /\ loader[i] = "resolver" /\ loader[j] = "resolver"
         /\ args[i] = args[j])
        => outcome[i] = outcome[j]

\* C10 (as claimed): the static content set is read-only: no step changes a
\* record or the set of defined keys, so a request repeated for the same
\* pair always has the same outcome.
C10_ReadOnlySameOutcome ==
    /\ [][modules' = modules]_vars
    /\ [](\A i, j \in Invocations : SameOutcome(i, j))

\* C10 (amended): the static content set is read-only: no step changes a
\* record or the set of defined keys, so a request repeated for the same
\* pair has the same outcome whenever the import of an existing module is
\* not itself rejected; a request whose import is rejected fails.
C10_ReadOnly ==
    /\ [][modules' = modules]_vars
    /\ [](\A i, j \in Invocations :
              (~LoadFailure(i) /\ ~LoadFailure(j)) => SameOutcome(i, j))
    /\ [](\A i \in Invocations : LoadFailure(i) => Failed(i))

\* The same pair has been requested twice and resolved twice to the same
\* record, which is still the one of the content set.
C10_Witness ==
    \E i, j \in Invocations :
        /\ i # j
        /\ Succeeded(i) /\ loader[i] = "resolver"
        /\ Succeeded(j) /\ loader[j] = "resolver"
        /\ args[i] = args[j]
        /\ outcome[i] = outcome[j]
        /\ RecordOf(args[i]) = outcome[i].roadmap

====
